---- MODULE Spec2Model ----
(***************************************************************************)
(* Galamwatch (src/src/App.tsx): the report store of the App component,    *)
(* the lifecycle of a report (submitReport, its delayed "Received"         *)
(* acknowledgment, Advance Status, Delete), the tab / lock navigation that *)
(* decides which of these handlers the user can reach, app restarts, and   *)
(* what the Map tab shows of the reports: markers, distance and heatmap.   *)
(*                                                                         *)
(* Abstractions:                                                           *)
(*  - a coordinate is a pair of integers, metres of arc north / east of    *)
(*    (0 deg, 0 deg); 90 deg of latitude is MaxLatM metres;                *)
(*  - Math.random() is a choice from Draws (quarters of the unit interval) *)
(*    and the bearing a choice from Bearings (degrees);                    *)
(*  - uuidv4() returns an id never returned before (the counter issued);   *)
(*  - Date is the clock now, moved only by Tick;                           *)
(*  - the noise of the heatmap, sign(u) * log(1 - 2 |u|) for u drawn by    *)
(*    Math.random(), is an integer from NoiseDraws, one for each cell, and *)
(*    the DP epsilon is a whole number;                                    *)
(*  - the fields of the New Report form are inputs of submitReport, drawn  *)
(*    from Forms; category, description, media and contact are passed      *)
(*    through by the code and are not stored in the modelled report;       *)
(*  - the text of an input is the sequence of its characters.              *)
(***************************************************************************)
EXTENDS Integers, Sequences, FiniteSets, TLC

\* ---------------------------------------------------------------- bounds
\* Number of reports ever submitted (uuids drawn).
MaxReports == 1
\* Last value of the clock.
MaxTime == 1
\* Last day of the clock where reports grow old.
MaxDays == 2
\* Number of reports filed where the map needs several of them.
MaxFiled == 2
\* Largest size of a noise draw of the heatmap.
MaxNoise == 2

VARIABLES
    reports,      \* useState<Report[]>, newest first
    pending,      \* ids whose setTimeout(..., 900) acknowledgment has not run yet
    issued,       \* number of uuids drawn so far
    now,          \* the clock read by new Date()
    tab,          \* useState tab
    locked,       \* useState locked (persisted as gw_locked_r8)
    privateView,  \* useState privateView
    banner,       \* useState banner
    settings,     \* useState settings (persisted as gw_settings_r8)
    notes         \* useState notes (persisted as gw_notes_r8)

vars == <<reports, pending, issued, now, tab, locked, privateView, banner, settings, notes>>

\* ------------------------------------------------------------- utilities
Max(a, b) == IF a >= b THEN a ELSE b
Min(a, b) == IF a <= b THEN a ELSE b

\* const clamp = (v, min, max) => Math.max(min, Math.min(max, v))
clamp(v, lo, hi) == Max(lo, Min(hi, v))

Abs(a) == IF a >= 0 THEN a ELSE -a

\* haversine(lat1, lon1, lat2, lon2): the distance in metres between two points,
\* rounded down. On the plane it is the length of the hypotenuse, which lies
\* between the longer leg and the sum of the legs.
haversine(lat1, lon1, lat2, lon2) ==
    LET dLat == Abs(lat2 - lat1)
        dLon == Abs(lon2 - lon1)
        a == dLat * dLat + dLon * dLon
    IN  CHOOSE c \in Max(dLat, dLon)..(dLat + dLon) : c * c <= a /\ (c + 1) * (c + 1) > a

\* 90 degrees of latitude / 180 degrees of longitude, in metres of arc.
MaxLatM == 10007543
MaxLonM == 20015086

Statuses == <<"Submitted", "Received", "In Progress", "Resolved">>

\* Position of a status in the Timeline's steps array (steps.indexOf).
StepIndex(s) == CHOOSE i \in 1..Len(Statuses) : Statuses[i] = s

Ids(rs) == {rs[i].id : i \in 1..Len(rs)}
ReportOf(rs, id) == rs[CHOOSE i \in 1..Len(rs) : rs[i].id = id]
States(h) == [i \in 1..Len(h) |-> h[i].state]

\* ---------------------------------------------------------------- banner
NoBanner == [type |-> "none", text |-> ""]
ErrConfirm == [type |-> "error",
    text |-> "Please confirm you are at a safe distance and will not confront anyone."]
ErrDescription == [type |-> "error", text |-> "Please add a short description."]
ErrLocation == [type |-> "error",
    text |-> "Tap Use My Location or enter latitude and longitude."]
ErrCallback == [type |-> "error",
    text |-> "To request a callback, enter a phone number or an email."]
OkSubmitted == [type |-> "success", text |-> "Report submitted. Track it in My Reports."]
OkUnlocked == [type |-> "success", text |-> "Unlocked."]
ErrWrongPin == [type |-> "error", text |-> "Wrong PIN."]
OkPinSaved == [type |-> "success", text |-> "PIN saved."]
InfoCleared == [type |-> "info", text |-> "Local data cleared."]

\* -------------------------------------------------------------- settings
NoPin == <<"undefined", "">>
defaultSettings ==
    [lockMyReports |-> TRUE, lockSettings |-> TRUE, appPinHash |-> NoPin,
     autoExpiryDays |-> 0, dpEpsilon |-> 1, dpKMin |-> 3]

\* sha256Hex: distinct strings have distinct digests.
sha256Hex(str) == <<"sha256", str>>

\* ------------------------------------------------------- New Report form
\* <input> values of latRef / lonRef: empty, not a number, or a number typed in.
EmptyField == [kind |-> "empty"]
TextField == [kind |-> "text"]
NumField(v) == [kind |-> "num", v |-> v]

\* Number(field.value || ""): Number("") is 0, Number("abc") is NaN.
NumberOf(field) ==
    CASE field.kind = "empty" -> [finite |-> TRUE, v |-> 0]
      [] field.kind = "num" -> [finite |-> TRUE, v |-> field.v]
      [] OTHER -> [finite |-> FALSE, v |-> 0]

NoFix == [fix |-> FALSE]
Fix(lat, lon) == [fix |-> TRUE, lat |-> lat, lon |-> lon]

\* The text of an input is the sequence of its characters. String.trim() takes
\* the blanks off both ends.
trim(str) ==
    LET inked == {i \in 1..Len(str) : str[i] # " "}
    IN  IF inked = {} THEN <<>>
        ELSE SubSeq(str, CHOOSE i \in inked : \A j \in inked : i <= j,
                         CHOOSE i \in inked : \A j \in inked : i >= j)

\* A form ready to submit: GPS captured at (5000, 7000), blur slider at 300.
GoodForm ==
    [confirmSafe |-> TRUE, confirmNoConfront |-> TRUE, description |-> <<"p", "i", "t">>,
     gps |-> Fix(5000, 7000), latField |-> EmptyField, lonField |-> EmptyField,
     shareContact |-> FALSE, wantsCallback |-> FALSE, phone |-> <<>>, email |-> <<>>,
     blurRadius |-> 300, sensitiveMode |-> FALSE]

\* The forms submitReport is tried on: one it accepts, one it rejects.
Forms == { GoodForm, [GoodForm EXCEPT !.confirmSafe = FALSE] }

\* GoodForm with no GPS fix and the latitude and longitude fields holding lat, lon.
TypedForm(lat, lon) == [GoodForm EXCEPT !.gps = NoFix, !.latField = lat, !.lonField = lon]

\* GoodForm asking for a callback, contact shared, with the phone and email given.
CallbackForm(phone, email) ==
    [GoodForm EXCEPT !.shareContact = TRUE, !.wantsCallback = TRUE,
                     !.phone = phone, !.email = email]

\* Forms for every check of submitReport: a confirmation missing; the
\* description empty or blank; the location typed in, left empty, not a number
\* or out of range; a callback asked for with and without a contact.
AnyForms ==
    { GoodForm,
      [GoodForm EXCEPT !.confirmSafe = FALSE],
      [GoodForm EXCEPT !.confirmNoConfront = FALSE],
      [GoodForm EXCEPT !.description = <<>>],
      [GoodForm EXCEPT !.description = <<" ", " ">>],
      TypedForm(NumField(5000), NumField(7400)),
      TypedForm(EmptyField, EmptyField),
      TypedForm(TextField, NumField(7400)),
      TypedForm(NumField(MaxLatM + 1), NumField(7400)),
      CallbackForm(<<>>, <<>>),
      CallbackForm(<<" ">>, <<>>),
      CallbackForm(<<"0", "2">>, <<>>),
      [CallbackForm(<<>>, <<>>) EXCEPT !.shareContact = FALSE] }

\* Math.random() in quarters, and the bearings drawn (degrees).
Draws == {1}
Bearings == {0}
DrawDen == 4

\* Every value of Math.random() in quarters, and the four cardinal bearings.
AllDraws == 0..(DrawDen - 1)
AllBearings == {0, 90, 180, 270}

\* Values of the blurRadius state submitReport is tried on: positions of the
\* slider and preset buttons (500 left out), and one value on each side of the
\* range that clamp guards.
Requested == {-50, 0, 100, 300, 2000, 2050}

\* GoodForm with every requested blur radius, sensitive mode on and off.
BlurForms ==
    {[GoodForm EXCEPT !.blurRadius = x, !.sensitiveMode = m] :
        x \in Requested, m \in BOOLEAN}

\* Mutant of randomPointInRing: the distance drawn from [0, maxM).
randomPointInRing_FromCentre(lat, lon, minM, maxM, b, u) ==
    LET d == (u * maxM) \div DrawDen IN
    CASE b = 0 -> [lat |-> lat + d, lon |-> lon]
      [] b = 90 -> [lat |-> lat, lon |-> lon + d]
      [] b = 180 -> [lat |-> lat - d, lon |-> lon]
      [] OTHER -> [lat |-> lat, lon |-> lon - d]

\* randomPointInRing(lat, lon, minM, maxM): the point at distance
\* d = minM + random * (maxM - minM) from (lat, lon) on bearing b. On the
\* plane, bearing 0 is north, 90 east, 180 south, 270 west.
randomPointInRing(lat, lon, minM, maxM, b, u) ==
    LET d == minM + (u * (maxM - minM)) \div DrawDen IN
    CASE b = 0 -> [lat |-> lat + d, lon |-> lon]
      [] b = 90 -> [lat |-> lat, lon |-> lon + d]
      [] b = 180 -> [lat |-> lat - d, lon |-> lon]
      [] OTHER -> [lat |-> lat, lon |-> lon - d]

\* submitReport, lines 562-567: the location the report is filed at.
useGpsOf(f) ==
    LET lat == NumberOf(f.latField)
        lon == NumberOf(f.lonField)
        latOk == lat.finite /\ lat.v >= -MaxLatM /\ lat.v <= MaxLatM
        lonOk == lon.finite /\ lon.v >= -MaxLonM /\ lon.v <= MaxLonM
    IN  IF ~f.gps.fix /\ latOk /\ lonOk THEN Fix(lat.v, lon.v) ELSE f.gps

\* Mutant of SubmitError: the description tested before it is trimmed.
SubmitError_NoTrim(f) ==
    IF ~f.confirmSafe \/ ~f.confirmNoConfront THEN ErrConfirm
    ELSE IF f.description = <<>> THEN ErrDescription
    ELSE IF ~useGpsOf(f).fix THEN ErrLocation
    ELSE IF f.shareContact /\ f.wantsCallback
            /\ trim(f.phone) = <<>> /\ trim(f.email) = <<>>
         THEN ErrCallback
    ELSE NoBanner

\* submitReport, lines 549-597: the error banner of a rejected form, or NoBanner.
SubmitError(f) ==
    IF ~f.confirmSafe \/ ~f.confirmNoConfront THEN ErrConfirm
    ELSE IF trim(f.description) = <<>> THEN ErrDescription
    ELSE IF ~useGpsOf(f).fix THEN ErrLocation
    ELSE IF f.shareContact /\ f.wantsCallback
            /\ trim(f.phone) = <<>> /\ trim(f.email) = <<>>
         THEN ErrCallback
    ELSE NoBanner

\* Mutant of chosenBlurOf: the sensitive floor left out.
chosenBlurOf_NoFloor(f) == clamp(f.blurRadius, 0, 2000)

\* submitReport, lines 599-600.
chosenBlurOf(f) ==
    LET minBlur == IF f.sensitiveMode THEN 500 ELSE 0
    IN  Max(minBlur, clamp(f.blurRadius, 0, 2000))

\* Mutant of offsetOf: the ring sampled whatever the radius.
offsetOf_AlwaysRing(useGps, chosenBlur, b, u) ==
    randomPointInRing(useGps.lat, useGps.lon,
                      Max(1, chosenBlur \div 2), chosenBlur, b, u)

\* submitReport, lines 601-609. The blur slider (step 50) and the preset buttons
\* give even radii, for which chosenBlur * 0.5 is chosenBlur \div 2.
offsetOf(useGps, chosenBlur, b, u) ==
    IF chosenBlur > 0
    THEN randomPointInRing(useGps.lat, useGps.lon,
                           Max(1, chosenBlur \div 2), chosenBlur, b, u)
    ELSE [lat |-> useGps.lat, lon |-> useGps.lon]

\* Mutant of NewReportOf: the id taken from the length of the list.
NewReportOf_ListIndex(f, id, nowIso, b, u) ==
    [id |-> Len(reports) + 1,
     createdAt |-> nowIso,
     gps |-> [lat |-> useGpsOf(f).lat, lon |-> useGpsOf(f).lon],
     blurRadius |-> chosenBlurOf(f),
     publicOffset |-> offsetOf(useGpsOf(f), chosenBlurOf(f), b, u),
     status |-> "Submitted",
     history |-> <<[state |-> "Submitted", at |-> nowIso]>>]

\* submitReport, lines 611-624: the report built from an accepted form.
NewReportOf(f, id, nowIso, b, u) ==
    LET useGps == useGpsOf(f)
        chosenBlur == chosenBlurOf(f)
    IN  [id |-> id,
         createdAt |-> nowIso,
         gps |-> [lat |-> useGps.lat, lon |-> useGps.lon],
         blurRadius |-> chosenBlur,
         publicOffset |-> offsetOf(useGps, chosenBlur, b, u),
         status |-> "Submitted",
         history |-> <<[state |-> "Submitted", at |-> nowIso]>>]

\* ------------------------------------------------------ report lifecycle
\* Mutants of ackOf: acknowledging only a report still in Submitted; setting
\* the status without the history entry; deriving the public point again.
ackOf_OnlySubmitted(x, at) ==
    IF x.status = "Submitted"
    THEN [x EXCEPT !.status = "Received",
                   !.history = Append(@, [state |-> "Received", at |-> at])]
    ELSE x

ackOf_StatusOnly(x, at) == [x EXCEPT !.status = "Received"]

ackOf_Rederive(x, at) ==
    [x EXCEPT !.status = "Received",
              !.history = Append(@, [state |-> "Received", at |-> at]),
              !.publicOffset = offsetOf(x.gps, x.blurRadius, 90, 0)]

\* The object the delayed acknowledgment puts in place of report x (lines 650-654).
ackOf(x, at) ==
    [x EXCEPT !.status = "Received",
              !.history = Append(@, [state |-> "Received", at |-> at])]

\* Mutant of nextStatusOf: the test made on the wrong status.
nextStatusOf_FromReceived(x) == IF x.status = "Received" THEN "Resolved" ELSE "In Progress"

\* The status Advance Status moves report x to (lines 1354, 1358-1359).
nextStatusOf(x) == IF x.status = "In Progress" THEN "Resolved" ELSE "In Progress"

\* Mutants of advanceOf: the history replaced by the new entry instead of
\* extended; the entry recording the status the report leaves.
advanceOf_Overwrite(x, at) ==
    [x EXCEPT !.status = nextStatusOf(x),
              !.history = <<[state |-> nextStatusOf(x), at |-> at]>>]

advanceOf_LogsOldStatus(x, at) ==
    [x EXCEPT !.status = nextStatusOf(x),
              !.history = Append(@, [state |-> x.status, at |-> at])]

\* The object Advance Status puts in place of report x (lines 1352-1363).
advanceOf(x, at) ==
    [x EXCEPT !.status = nextStatusOf(x),
              !.history = Append(@, [state |-> nextStatusOf(x), at |-> at])]

\* Mutant of expiredOut: a report as old as the limit removed too.
expiredOut_Strict(rs, s, t) ==
    IF s.autoExpiryDays <= 0 THEN rs
    ELSE SelectSeq(rs, LAMBDA r : t - r.createdAt < s.autoExpiryDays)

\* Auto-expiry on mount (lines 266-273); the clock counts days.
expiredOut(rs, s, t) ==
    IF s.autoExpiryDays <= 0 THEN rs
    ELSE SelectSeq(rs, LAMBDA r : t - r.createdAt <= s.autoExpiryDays)

\* ------------------------------------------------------------------- map
\* MapView, lines 1471-1474: where the marker of report r is put.
markerOf(r, pv) ==
    IF pv THEN [lat |-> r.gps.lat, lon |-> r.gps.lon]
    ELSE [lat |-> r.publicOffset.lat, lon |-> r.publicOffset.lon]

\* Mutant of distanceOf: the distance always measured to the exact point.
distanceOf_Exact(userLoc, r, pv) ==
    haversine(userLoc.lat, userLoc.lon, r.gps.lat, r.gps.lon)

\* MapView, lines 1498-1515: the distance shown for the selected report r to a
\* viewer at userLoc, in metres.
distanceOf(userLoc, r, pv) ==
    haversine(userLoc.lat, userLoc.lon,
              IF pv THEN r.gps.lat ELSE r.publicOffset.lat,
              IF pv THEN r.gps.lon ELSE r.publicOffset.lon)

\* const cell = 0.01 degrees, in metres of arc.
CellM == 1112

\* Math.round(n / d) for d > 0: halves go up.
RoundDiv(n, d) == (2 * n + d) \div (2 * d)

\* The key of the grid cell of point p (line 1418). The code keeps it as the
\* string "lat,lon" and parses it back with Number; printing a number and
\* parsing it returns the number, so the key is kept as the pair.
cellKeyOf(p) == <<RoundDiv(p.lat, CellM) * CellM, RoundDiv(p.lon, CellM) * CellM>>

\* Mutants of rawCounts: cells taken from the exact points; the cell east of
\* every populated cell entered with count 0.
rawCounts_ByGps(rs) ==
    LET keyAt(i) == cellKeyOf(rs[i].gps)
        keys == {keyAt(i) : i \in 1..Len(rs)}
    IN  [k \in keys |-> Cardinality({i \in 1..Len(rs) : keyAt(i) = k})]

rawCounts_WithNeighbours(rs) ==
    LET keyAt(i) == cellKeyOf(rs[i].publicOffset)
        keys == {keyAt(i) : i \in 1..Len(rs)}
        east == {<<k[1], k[2] + CellM>> : k \in keys}
    IN  [k \in keys \cup east |-> Cardinality({i \in 1..Len(rs) : keyAt(i) = k})]

\* Mutant of rawCounts: the count of a cell set to 1 instead of raised by 1.
rawCounts_NoIncrement(rs) ==
    LET keyAt(i) == cellKeyOf(rs[i].publicOffset)
        keys == {keyAt(i) : i \in 1..Len(rs)}
    IN  [k \in keys |-> 1]

\* The Map built by reports.forEach (lines 1414-1420): cell key -> count.
rawCounts(rs) ==
    LET keyAt(i) == cellKeyOf(rs[i].publicOffset)
        keys == {keyAt(i) : i \in 1..Len(rs)}
    IN  [k \in keys |-> Cardinality({i \in 1..Len(rs) : keyAt(i) = k})]

\* dpNoisy(count, epsilon) (lines 1389-1393) with w the value drawn for
\* sign(u) * log(1 - 2 |u|): Math.round(count - w / epsilon). The caller never
\* passes epsilon = 0.
dpNoisy(count, epsilon, w) ==
    IF epsilon > 0 THEN RoundDiv(count * epsilon - w, epsilon)
    ELSE RoundDiv(w - count * epsilon, -epsilon)

\* settings.dpEpsilon || 1.0 and settings.dpKMin || 3 (lines 1424-1425).
epsilonOf(s) == IF s.dpEpsilon = 0 THEN 1 ELSE s.dpEpsilon
kMinOf(s) == IF s.dpKMin = 0 THEN 3 ELSE s.dpKMin

\* Mutant of grid: the threshold test made strict.
grid_Strict(rs, pv, heat, s, noise) ==
    IF pv \/ ~heat THEN {}
    ELSE LET counts == rawCounts(rs)
             noisyAt(k) == dpNoisy(counts[k], epsilonOf(s), noise[k])
         IN  {[lat |-> k[1], lon |-> k[2], noisy |-> noisyAt(k)] :
                 k \in {c \in DOMAIN counts : noisyAt(c) > kMinOf(s)}}

\* The grid of MapView (lines 1411-1428) for the report list rs, the view pv,
\* the Heatmap checkbox heat, the settings s and the noise drawn for each cell.
grid(rs, pv, heat, s, noise) ==
    IF pv \/ ~heat THEN {}
    ELSE LET counts == rawCounts(rs)
             noisyAt(k) == dpNoisy(counts[k], epsilonOf(s), noise[k])
         IN  {[lat |-> k[1], lon |-> k[2], noisy |-> noisyAt(k)] :
                 k \in {c \in DOMAIN counts : noisyAt(c) >= kMinOf(s)}}

\* How the computation of the grid ends: it has no throw, it returns the cells.
gridResult(rs, pv, heat, s, noise) ==
    [error |-> "none", cells |-> grid(rs, pv, heat, s, noise)]

\* The values drawn for sign(u) * log(1 - 2 |u|), one for each populated cell.
NoiseDraws == (-MaxNoise)..MaxNoise
NoiseFor(rs) == [DOMAIN rawCounts(rs) -> NoiseDraws]

\* Settings the heatmap is built with: the DP epsilon and k-anonymity inputs
\* of the Settings tab (lines 1656-1680) accept epsilon >= 0.1 and k >= 1.
Epsilons == {1, 2}
KMins == {1, 2, 3}
Configs == {[defaultSettings EXCEPT !.dpEpsilon = e, !.dpKMin = k] : e \in Epsilons, k \in KMins}

\* Places of the viewer (userLoc): where GoodForm was filed, and a place nearby.
Viewers == {[lat |-> 5000, lon |-> 7000], [lat |-> 5300, lon |-> 7400]}

\* ------------------------------------------------------------------ Init
\* First start of the app: nothing in localStorage.
Init ==
    /\ reports = <<>>
    /\ pending = {}
    /\ issued = 0
    /\ now = 0
    /\ tab = "report"
    /\ locked = FALSE
    /\ privateView = TRUE
    /\ banner = NoBanner
    /\ settings = defaultSettings
    /\ notes = ""

\* --------------------------------------------------------------- actions
\* submitReport (lines 547-660), clicked on the New Report tab with the form
\* holding f, the bearing drawn b and the distance drawn u. A rejected form only
\* sets the error banner; an accepted one prepends the report, schedules its
\* acknowledgment and opens My Reports.
submitReport(f, b, u) ==
    /\ tab = "report"
    /\ IF SubmitError(f) # NoBanner
       THEN /\ banner' = SubmitError(f)
            /\ UNCHANGED <<reports, pending, issued, now, tab, locked, privateView, settings, notes>>
       ELSE /\ reports' = <<NewReportOf(f, issued + 1, now, b, u)>> \o reports
            /\ pending' = pending \cup {issued + 1}
            /\ issued' = issued + 1
            /\ banner' = OkSubmitted
            /\ tab' = "my"
            /\ UNCHANGED <<now, locked, privateView, settings, notes>>

\* Submit clicked on one of Forms; at most MaxReports reports are ever filed.
SubmitReport ==
    \E f \in Forms, b \in Bearings, u \in Draws :
        /\ SubmitError(f) # NoBanner \/ issued < MaxReports
        /\ submitReport(f, b, u)

\* Mutant of AckReceived: a report no longer in the list put back from the
\* copy the callback holds.
AckReceived_Upsert(id) ==
    /\ id \in pending
    /\ pending' = pending \ {id}
    /\ reports' = IF id \in Ids(reports)
                  THEN [i \in 1..Len(reports) |->
                        IF reports[i].id = id THEN ackOf(reports[i], now) ELSE reports[i]]
                  ELSE <<ackOf(NewReportOf(GoodForm, id, now, 0, 1), now)>> \o reports
    /\ UNCHANGED <<issued, now, tab, locked, privateView, banner, settings, notes>>

\* Mutant of AckReceived: the id test of the map left out.
AckReceived_All(id) ==
    /\ id \in pending
    /\ pending' = pending \ {id}
    /\ reports' = [i \in 1..Len(reports) |-> ackOf(reports[i], now)]
    /\ UNCHANGED <<issued, now, tab, locked, privateView, banner, settings, notes>>

\* The setTimeout callback of submitReport (lines 646-658) for report id.
AckReceived(id) ==
    /\ id \in pending
    /\ pending' = pending \ {id}
    /\ reports' = [i \in 1..Len(reports) |->
                   IF reports[i].id = id THEN ackOf(reports[i], now) ELSE reports[i]]
    /\ UNCHANGED <<issued, now, tab, locked, privateView, banner, settings, notes>>

\* The Advance Status button of report id in My Reports (lines 1346-1372); the
\* button is rendered only while the report is not Resolved.
AdvanceStatus(id) ==
    /\ tab = "my"
    /\ id \in Ids(reports)
    /\ ReportOf(reports, id).status # "Resolved"
    /\ reports' = [i \in 1..Len(reports) |->
                   IF reports[i].id = id THEN advanceOf(reports[i], now) ELSE reports[i]]
    /\ UNCHANGED <<pending, issued, now, tab, locked, privateView, banner, settings, notes>>

\* The Delete button of report id in My Reports (lines 1373-1378).
DeleteReport(id) ==
    /\ tab = "my"
    /\ id \in Ids(reports)
    /\ reports' = SelectSeq(reports, LAMBDA x : x.id # id)
    /\ UNCHANGED <<pending, issued, now, tab, locked, privateView, banner, settings, notes>>

\* Export JSON / Export Redacted of report id (lines 1291-1302, 707-723): the
\* report, or a copy of it, is written to a download; no state is assigned.
ExportReport(id) ==
    /\ tab = "my"
    /\ id \in Ids(reports)
    /\ UNCHANGED vars

\* lockIfNeeded(dest) (lines 733-739), called by the navigation bar (lines
\* 849-869), which is shown on every tab but the Notes cover.
lockIfNeeded(dest) ==
    /\ tab # "cover"
    /\ IF (dest = "my" /\ settings.lockMyReports)
          \/ (dest = "settings" /\ settings.lockSettings)
       THEN locked' = TRUE /\ tab' = "lock"
       ELSE tab' = dest /\ UNCHANGED locked
    /\ UNCHANGED <<reports, pending, issued, now, privateView, banner, settings, notes>>

Navigate == \E dest \in {"report", "my", "map", "help", "settings"} : lockIfNeeded(dest)

\* Quick Hide (lines 825-831) and Back (lines 840-845) in the header.
QuickHide ==
    /\ tab # "cover"
    /\ tab' = "cover"
    /\ UNCHANGED <<reports, pending, issued, now, locked, privateView, banner, settings, notes>>

Back ==
    /\ tab = "cover"
    /\ tab' = "report"
    /\ UNCHANGED <<reports, pending, issued, now, locked, privateView, banner, settings, notes>>

\* PINs typed on the lock screen.
Pins == {"", "1234"}

\* The test of tryUnlock (line 742): a PIN is set and pin has its digest.
unlocks(s, pin) == s.appPinHash # NoPin /\ sha256Hex(pin) = s.appPinHash

\* tryUnlock (lines 740-751) with pinInput = pin.
tryUnlock(pin) ==
    /\ tab = "lock"
    /\ IF unlocks(settings, pin)
       THEN locked' = FALSE /\ tab' = "report" /\ banner' = OkUnlocked
       ELSE banner' = ErrWrongPin /\ UNCHANGED <<locked, tab>>
    /\ UNCHANGED <<reports, pending, issued, now, privateView, settings, notes>>

TryUnlock == \E pin \in Pins : tryUnlock(pin)

\* Toggle View on the Map tab (lines 1444-1449).
TogglePrivateView ==
    /\ tab = "map"
    /\ privateView' = ~privateView
    /\ UNCHANGED <<reports, pending, issued, now, tab, locked, banner, settings, notes>>

\* Time passes.
Tick ==
    /\ now < MaxTime
    /\ now' = now + 1
    /\ UNCHANGED <<reports, pending, issued, tab, locked, privateView, banner, settings, notes>>

\* The app is closed and opened again: state is rebuilt from localStorage
\* (lines 211-229), pending timers are gone, and the mount effects run
\* (auto-expiry, lines 266-273; lock gate, lines 276-278).
Reload ==
    /\ reports' = expiredOut(reports, settings, now)
    /\ pending' = {}
    /\ tab' = IF locked THEN "lock" ELSE "report"
    /\ privateView' = TRUE
    /\ banner' = NoBanner
    /\ UNCHANGED <<issued, now, locked, settings, notes>>

\* Texts typed in the Notes cover (lines 1731-1741).
NoteTexts == {"", "memo"}

WriteNotes ==
    /\ tab = "cover"
    /\ \E text \in NoteTexts : notes' = text
    /\ UNCHANGED <<reports, pending, issued, now, tab, locked, privateView, banner, settings>>

\* The Security checkboxes of the Settings tab (lines 1546-1561).
ToggleLockMyReports ==
    /\ tab = "settings"
    /\ settings' = [settings EXCEPT !.lockMyReports = ~@]
    /\ UNCHANGED <<reports, pending, issued, now, tab, locked, privateView, banner, notes>>

ToggleLockSettings ==
    /\ tab = "settings"
    /\ settings' = [settings EXCEPT !.lockSettings = ~@]
    /\ UNCHANGED <<reports, pending, issued, now, tab, locked, privateView, banner, notes>>

\* Save PIN on the Settings tab (lines 1574-1581); an empty PIN is not saved.
SavePin ==
    /\ tab = "settings"
    /\ \E pin \in Pins \ {""} :
         /\ settings' = [settings EXCEPT !.appPinHash = sha256Hex(pin)]
         /\ banner' = OkPinSaved
    /\ UNCHANGED <<reports, pending, issued, now, tab, locked, privateView, notes>>

\* Days typed in the Auto-expire input.
ExpiryInputs == {-1, 0, 1}

\* The Auto-expire input of the Settings tab (lines 1640-1652).
SetAutoExpiry ==
    /\ tab = "settings"
    /\ \E days \in ExpiryInputs : settings' = [settings EXCEPT !.autoExpiryDays = Max(0, days)]
    /\ UNCHANGED <<reports, pending, issued, now, tab, locked, privateView, banner, notes>>

\* Mutant of quickWipe: the lock state left as it is.
quickWipe_StaysLocked ==
    /\ tab = "settings"
    /\ reports' = <<>>
    /\ notes' = ""
    /\ settings' = defaultSettings
    /\ tab' = "cover"
    /\ banner' = InfoCleared
    /\ UNCHANGED <<pending, issued, now, locked, privateView>>

\* quickWipe (lines 752-776), the Clear local data button of the Settings tab
\* (lines 1587-1592). Timers already set are not cleared.
quickWipe ==
    /\ tab = "settings"
    /\ reports' = <<>>
    /\ notes' = ""
    /\ settings' = defaultSettings
    /\ locked' = FALSE
    /\ tab' = "cover"
    /\ banner' = InfoCleared
    /\ UNCHANGED <<pending, issued, now, privateView>>

\* A day passes.
DayPasses ==
    /\ now < MaxDays
    /\ now' = now + 1
    /\ UNCHANGED <<reports, pending, issued, tab, locked, privateView, banner, settings, notes>>

\* The app started on a device whose stored settings (gw_settings_r8, read by
\* loadSettings, lines 151-154) leave the Settings tab open: with the settings
\* of a fresh install lockIfNeeded never lets the Settings tab be shown.
StoredSettings == [defaultSettings EXCEPT !.lockSettings = FALSE]

StoredInit ==
    /\ reports = <<>>
    /\ pending = {}
    /\ issued = 0
    /\ now = 0
    /\ tab = "report"
    /\ locked = FALSE
    /\ privateView = TRUE
    /\ banner = NoBanner
    /\ settings = StoredSettings
    /\ notes = ""

\* The lifecycle handlers of one session of the app, and the navigation bar
\* that leads to them.
Session ==
    \/ SubmitReport
    \/ \E id \in 1..MaxReports : AckReceived(id)
    \/ \E id \in 1..MaxReports : AdvanceStatus(id)
    \/ \E id \in 1..MaxReports : DeleteReport(id)
    \/ Navigate
    \/ Tick

\* The report store under every modelled operation that can run while reports
\* exist: the lifecycle, export, the map's view toggle and app restarts.
Next ==
    \/ Session
    \/ \E id \in 1..MaxReports : ExportReport(id)
    \/ TogglePrivateView
    \/ Reload

Spec == Init /\ [][Next]_vars

\* One session of the app (no restart), with the event loop running every
\* scheduled timer callback.
LiveSpec ==
    /\ Init
    /\ [][Session]_vars
    /\ \A id \in 1..MaxReports : WF_vars(AckReceived(id))

\* Every modelled handler, the Notes cover and the lock screen included.
AppNext ==
    \/ Next
    \/ QuickHide
    \/ Back
    \/ TryUnlock

AppSpec == Init /\ [][AppNext]_vars

\* Submit clicked on one of BlurForms, with any bearing and distance drawn.
SubmitBlurred ==
    \E f \in BlurForms, b \in AllBearings, u \in AllDraws :
        /\ issued < MaxReports
        /\ submitReport(f, b, u)

\* The New Report form over its blur settings: filing, acknowledgment, delete.
BlurNext ==
    \/ SubmitBlurred
    \/ \E id \in 1..MaxReports : AckReceived(id)
    \/ \E id \in 1..MaxReports : DeleteReport(id)

BlurSpec == Init /\ [][BlurNext]_vars

\* The forms filed where the map is looked at: no blur, and the widest blur,
\* which moves the public point to another grid cell.
MapForms == {[GoodForm EXCEPT !.blurRadius = x] : x \in {0, 2000}}
MapBearings == {0, 90}
MapDraws == {0}

SubmitMapped ==
    \E f \in MapForms, b \in MapBearings, u \in MapDraws :
        /\ issued < MaxFiled
        /\ submitReport(f, b, u)

\* Reports filed, acknowledged and deleted, and the map looked at in both views,
\* over restarts of the app.
MapNext ==
    \/ SubmitMapped
    \/ \E id \in 1..MaxFiled : AckReceived(id)
    \/ \E id \in 1..MaxFiled : DeleteReport(id)
    \/ Navigate
    \/ TogglePrivateView
    \/ Reload

MapSpec == Init /\ [][MapNext]_vars

\* Submit clicked on one of AnyForms.
SubmitAny ==
    \E f \in AnyForms, b \in Bearings, u \in Draws :
        /\ SubmitError(f) # NoBanner \/ issued < MaxReports
        /\ submitReport(f, b, u)

\* The New Report form over every check it makes, with the lifecycle of the
\* report filed and the navigation back to the form.
FormNext ==
    \/ SubmitAny
    \/ \E id \in 1..MaxReports : AckReceived(id)
    \/ \E id \in 1..MaxReports : DeleteReport(id)
    \/ Navigate

FormSpec == Init /\ [][FormNext]_vars

\* Several reports in the list at once, under every handler that rewrites it.
ListNext ==
    \/ SubmitMapped
    \/ \E id \in 1..MaxFiled : AckReceived(id)
    \/ \E id \in 1..MaxFiled : AdvanceStatus(id)
    \/ \E id \in 1..MaxFiled : DeleteReport(id)
    \/ Navigate

ListSpec == Init /\ [][ListNext]_vars

\* The Settings tab and Quick Wipe, with reports filed, deleted and notes
\* written before the wipe and acknowledgments running after it.
WipeNext ==
    \/ SubmitReport
    \/ \E id \in 1..MaxReports : AckReceived(id)
    \/ \E id \in 1..MaxReports : DeleteReport(id)
    \/ Navigate
    \/ QuickHide
    \/ Back
    \/ WriteNotes
    \/ ToggleLockMyReports
    \/ ToggleLockSettings
    \/ SavePin
    \/ TryUnlock
    \/ quickWipe

WipeSpec == StoredInit /\ [][WipeNext]_vars

\* Submit clicked on GoodForm, for up to MaxFiled reports.
SubmitFiled ==
    \E b \in Bearings, u \in Draws :
        /\ issued < MaxFiled
        /\ submitReport(GoodForm, b, u)

\* Reports growing old over days and restarts, with auto-expiry set on the
\* Settings tab.
ExpiryNext ==
    \/ SubmitFiled
    \/ \E id \in 1..MaxFiled : AckReceived(id)
    \/ Navigate
    \/ SetAutoExpiry
    \/ DayPasses
    \/ Reload

ExpirySpec == StoredInit /\ [][ExpiryNext]_vars

\* ---------------------------------------------------------------- claims
\* Reports present before and after a step.
Kept == Ids(reports) \cap Ids(reports')

IsPrefix(s, t) == Len(s) <= Len(t) /\ \A i \in 1..Len(s) : s[i] = t[i]

HasState(r, st) == \E i \in 1..Len(r.history) : r.history[i].state = st

AllReports == {reports[i] : i \in 1..Len(reports)}

\* C1: no step changes the status of a report to an earlier one in the order
\* Submitted < Received < In Progress < Resolved.
C1_StatusOnlyForward ==
    [][\A id \in Kept :
         StepIndex(ReportOf(reports', id).status) >= StepIndex(ReportOf(reports, id).status)]_vars

\* C2: once a report is Resolved, no step changes its status or its history.
C2_ResolvedTerminal ==
    [][\A id \in Kept :
         ReportOf(reports, id).status = "Resolved"
         => /\ ReportOf(reports', id).status = "Resolved"
            /\ ReportOf(reports', id).history = ReportOf(reports, id).history]_vars

\* The transitions the lifecycle enumerates.
EnumeratedTransitions ==
    { <<"Submitted", "Received">>, <<"Received", "In Progress">>,
      <<"In Progress", "Received">>, <<"In Progress", "Resolved">> }

\* C3: two consecutive entries of a history are always one of the enumerated
\* transitions.
C3_OnlyEnumeratedTransitions ==
    \A r \in AllReports : \A i \in 1..(Len(r.history) - 1) :
        <<r.history[i].state, r.history[i + 1].state>> \in EnumeratedTransitions

\* C4: in every history a Resolved entry is never the first entry and the entry
\* immediately before it is In Progress.
C4_ResolvedOnlyFromInProgress ==
    \A r \in AllReports : \A i \in 1..Len(r.history) :
        r.history[i].state = "Resolved"
        => i > 1 /\ r.history[i - 1].state = "In Progress"

C4_Witness == \E r \in AllReports : r.status = "Resolved"

\* C5: a history holds at most one Received entry, and that entry directly
\* follows the Submitted entry (it is the second entry).
C5_ReceivedOnceAfterSubmitted ==
    \A r \in AllReports : \A i \in 1..Len(r.history) :
        r.history[i].state = "Received" => i = 2 /\ r.history[1].state = "Submitted"

\* C6: every report in the list is eventually deleted or gets a Received entry
\* in its history, when the timer callbacks are eventually run.
C6_EventuallyReceived ==
    \A id \in 1..MaxReports :
        (id \in Ids(reports))
        ~> (id \notin Ids(reports) \/ HasState(ReportOf(reports, id), "Received"))

C6_Witness ==
    \E r \in AllReports : r.id \notin pending /\ HasState(r, "Received")

\* C7: every stored report has a non-empty history whose first entry is
\* (Submitted, createdAt) and whose last entry's state is the report's status.
C7_HistoryShape ==
    \A r \in AllReports :
        /\ Len(r.history) >= 1
        /\ r.history[1] = [state |-> "Submitted", at |-> r.createdAt]
        /\ r.history[Len(r.history)].state = r.status

C7_Witness ==
    \E r \in AllReports : Len(r.history) >= 3 /\ r.createdAt < r.history[3].at

\* C8: a step keeps the old history of every report as a prefix of the new one,
\* and a step that changes the status appends exactly one entry, the new status.
C8_HistoryAppendOnly ==
    [][\A i \in 1..Len(reports) : \A j \in 1..Len(reports') :
         reports[i].id = reports'[j].id
         => /\ IsPrefix(reports[i].history, reports'[j].history)
            /\ reports'[j].status # reports[i].status
               => /\ Len(reports'[j].history) = Len(reports[i].history) + 1
                  /\ reports'[j].history[Len(reports'[j].history)].state
                       = reports'[j].status]_vars

C8_Witness ==
    \E r \in AllReports : Len(r.history) >= 4 /\ r.status = "In Progress"

\* C9: the report submitReport adds is Submitted with history
\* [(Submitted, createdAt)]; the acknowledgment applied to it, then Advance
\* Status twice, give the states Submitted, Received, In Progress, Resolved.
C9_FreshThenFullLifecycle ==
    [][/\ Len(reports') > Len(reports)
          => /\ reports'[1].status = "Submitted"
             /\ reports'[1].history = <<[state |-> "Submitted", at |-> reports'[1].createdAt]>>
       /\ \A id \in Kept :
            LET old == States(ReportOf(reports, id).history)
                new == States(ReportOf(reports', id).history)
            IN  /\ (AckReceived(id) /\ old = <<"Submitted">>)
                   => new = <<"Submitted", "Received">>
                /\ (AdvanceStatus(id) /\ old = <<"Submitted", "Received">>)
                   => new = <<"Submitted", "Received", "In Progress">>
                /\ (AdvanceStatus(id) /\ old = <<"Submitted", "Received", "In Progress">>)
                   => /\ new = <<"Submitted", "Received", "In Progress", "Resolved">>
                      /\ ReportOf(reports', id).status = "Resolved"]_vars

C9_Witness ==
    \E r \in AllReports :
        States(r.history) = <<"Submitted", "Received", "In Progress", "Resolved">>

\* C10: no step changes the createdAt, gps, blurRadius or publicOffset of a
\* report that stays in the list, and a step that keeps the length of the list
\* keeps the id at every position.
C10_PublicLocationStable ==
    [][/\ Len(reports') = Len(reports)
          => \A i \in 1..Len(reports) : reports'[i].id = reports[i].id
       /\ \A i \in 1..Len(reports) : \A j \in 1..Len(reports') :
            reports[i].id = reports'[j].id
            => /\ reports'[j].createdAt = reports[i].createdAt
               /\ reports'[j].gps = reports[i].gps
               /\ reports'[j].blurRadius = reports[i].blurRadius
               /\ reports'[j].publicOffset = reports[i].publicOffset]_vars

C10_Witness ==
    /\ ~privateView
    /\ \E r \in AllReports :
         /\ r.blurRadius > 0
         /\ r.publicOffset # r.gps
         /\ r.status = "Resolved"
         /\ HasState(r, "Received")

\* C11: the blur radius stored by submitReport is the requested one clamped to
\* [0, 2000], raised to 500 in sensitive mode: it is in [0, 2000], at least 500
\* in sensitive mode, and 500 for a requested 100 in sensitive mode.
C11_BlurRadiusResolved ==
    [][\A f \in BlurForms, b \in AllBearings, u \in AllDraws :
         (submitReport(f, b, u) /\ Len(reports') > Len(reports))
         => LET x == f.blurRadius
                clamped == IF x < 0 THEN 0 ELSE IF x > 2000 THEN 2000 ELSE x
                stored == reports'[1].blurRadius
            IN  /\ ~f.sensitiveMode => stored = clamped
                /\ f.sensitiveMode => stored = (IF clamped < 500 THEN 500 ELSE clamped)
                /\ stored >= 0 /\ stored <= 2000
                /\ f.sensitiveMode => stored >= 500
                /\ (f.sensitiveMode /\ x = 100) => stored = 500]_vars

\* No form of BlurForms requests 500: a stored 500 is the sensitive floor.
C11_Witness == \E r \in AllReports : r.blurRadius = 500 /\ r.status = "Received"

\* C12: every stored report with blurRadius 0 has publicOffset at its exact
\* gps latitude and longitude.
C12_NoBlurExactPoint ==
    \A r \in AllReports :
        r.blurRadius = 0
        => r.publicOffset.lat = r.gps.lat /\ r.publicOffset.lon = r.gps.lon

C12_Witness ==
    \E r \in AllReports : r.blurRadius = 0 /\ r.status = "Received"

\* Distance in metres between the exact and the public point of report r.
OffsetDistance(r) ==
    haversine(r.gps.lat, r.gps.lon, r.publicOffset.lat, r.publicOffset.lon)

\* C13: for every stored report with blurRadius r > 0 the distance between
\* publicOffset and gps is at least max(1, r/2) and at most r.
C13_OffsetInRing ==
    \A r \in AllReports :
        r.blurRadius > 0
        => /\ OffsetDistance(r) >= 1
           /\ 2 * OffsetDistance(r) >= r.blurRadius
           /\ OffsetDistance(r) <= r.blurRadius

\* A report on the inner edge of its ring, and one strictly inside the ring.
C13_Witness ==
    \E r \in AllReports :
        /\ r.blurRadius = 100
        /\ r.publicOffset.lon # r.gps.lon
        /\ OffsetDistance(r) > 50

\* C14: on the Map tab in the public view the marker of every report and the
\* end point of its distance are publicOffset, not the exact gps point (a
\* blurred report is never shown at its gps point nor at distance 0 from it);
\* in the private view they are the exact gps point.
C14_PublicViewShowsOffset ==
    tab = "map"
    => \A r \in AllReports : \A v \in Viewers :
         LET exact == [lat |-> r.gps.lat, lon |-> r.gps.lon]
             public == [lat |-> r.publicOffset.lat, lon |-> r.publicOffset.lon]
         IN  IF privateView
             THEN /\ markerOf(r, privateView) = exact
                  /\ distanceOf(v, r, privateView) = haversine(v.lat, v.lon, exact.lat, exact.lon)
                  /\ distanceOf(exact, r, privateView) = 0
             ELSE /\ markerOf(r, privateView) = public
                  /\ distanceOf(v, r, privateView) = haversine(v.lat, v.lon, public.lat, public.lon)
                  /\ r.blurRadius > 0
                     => /\ markerOf(r, privateView) # exact
                        /\ 2 * distanceOf(exact, r, privateView) >= r.blurRadius

C14_Witness ==
    /\ tab = "map"
    /\ ~privateView
    /\ \E r \in AllReports : r.blurRadius > 0 /\ r.publicOffset # r.gps

\* The report list with every exact point replaced by g.
WithGps(rs, g) == [i \in 1..Len(rs) |-> [rs[i] EXCEPT !.gps = g]]

\* Exact points put in place of the stored ones.
OtherGps == {[lat |-> 0, lon |-> 0], [lat |-> 6000, lon |-> 8000]}

\* C15: the heatmap's cells and raw counts are those of the publicOffset values:
\* a report list with the same publicOffsets and other gps values has the same
\* cells and counts, and the same heatmap under every noise draw.
C15_HeatmapFromPublicOnly ==
    \A g \in OtherGps :
        /\ rawCounts(WithGps(reports, g)) = rawCounts(reports)
        /\ tab = "map"
           => \A noise \in NoiseFor(reports) :
                grid(WithGps(reports, g), FALSE, TRUE, settings, noise)
                  = grid(reports, FALSE, TRUE, settings, noise)

\* Two reports whose public points share a cell that holds neither exact point.
C15_Witness ==
    /\ tab = "map"
    /\ Len(reports) = 2
    /\ cellKeyOf(reports[1].publicOffset) = cellKeyOf(reports[2].publicOffset)
    /\ cellKeyOf(reports[1].gps) # cellKeyOf(reports[1].publicOffset)

\* C16: whatever the settings and the noise drawn, every cell of the heatmap
\* holds at least dpKMin reports.
C16_NoCellBelowThreshold ==
    (tab = "map" /\ ~privateView)
    => \A s \in Configs : \A noise \in NoiseFor(reports) :
         \A c \in grid(reports, privateView, TRUE, s, noise) :
             rawCounts(reports)[<<c.lat, c.lon>>] >= s.dpKMin

\* C17: a populated cell is in the heatmap if and only if its noised count is
\* at least dpKMin; a returned cell carries its place and noised count only.
C17_IncludedIffNoisyAtLeastK ==
    (tab = "map" /\ ~privateView)
    => \A s \in Configs : \A noise \in NoiseFor(reports) :
         LET out == grid(reports, privateView, TRUE, s, noise)
             counts == rawCounts(reports)
         IN  /\ \A k \in DOMAIN counts :
                  (\E c \in out : <<c.lat, c.lon>> = k)
                  <=> dpNoisy(counts[k], s.dpEpsilon, noise[k]) >= s.dpKMin
             /\ \A c \in out : c.noisy >= s.dpKMin /\ DOMAIN c = {"lat", "lon", "noisy"}

\* One cell with two reports: with dpKMin = 3 it is shown under one noise draw
\* and dropped under another.
C17_Witness ==
    /\ tab = "map"
    /\ ~privateView
    /\ Len(reports) = 2
    /\ Cardinality(DOMAIN rawCounts(reports)) = 1
    /\ \E noise \in NoiseFor(reports) : grid(reports, privateView, TRUE, defaultSettings, noise) # {}
    /\ \E noise \in NoiseFor(reports) : grid(reports, privateView, TRUE, defaultSettings, noise) = {}

\* C18: every cell of the heatmap is the cell of the publicOffset of a stored
\* report, whatever the settings and the noise drawn.
C18_NoEmptyCellShown ==
    (tab = "map" /\ ~privateView)
    => \A s \in Configs : \A noise \in NoiseFor(reports) :
         \A c \in grid(reports, privateView, TRUE, s, noise) :
             \E r \in AllReports : cellKeyOf(r.publicOffset) = <<c.lat, c.lon>>

\* Two populated cells, both shown, next to cells that hold no report.
C18_Witness ==
    /\ tab = "map"
    /\ ~privateView
    /\ Cardinality(DOMAIN rawCounts(reports)) = 2
    /\ \E noise \in NoiseFor(reports) :
         Cardinality(grid(reports, privateView, TRUE, defaultSettings, noise)) = 2

\* C19: with an epsilon that is not positive the heatmap is not built: the
\* computation ends with InvalidPrivacyConfig and returns no noised count.
C19_NonPositiveEpsilonFails ==
    (tab = "map" /\ ~privateView /\ reports # <<>>)
    => \A e \in {-1, 0} : \A noise \in NoiseFor(reports) :
         LET res == gridResult(reports, privateView, TRUE,
                               [settings EXCEPT !.dpEpsilon = e], noise)
         IN  res.error = "InvalidPrivacyConfig" /\ res.cells = {}

\* C20: no two stored reports share an id, and the id of a report added by a
\* step was never assigned before (ids assigned so far are 1..issued).
C20_IdsUniqueNeverReused ==
    [][/\ \A i \in 1..Len(reports') : \A j \in 1..Len(reports') :
            reports'[i].id = reports'[j].id => i = j
       /\ Len(reports') > Len(reports)
          => /\ reports'[1].id \notin 1..issued
             /\ reports'[1].id \in 1..issued'
             /\ \A i \in 1..Len(reports) : reports'[i + 1].id = reports[i].id]_vars

\* The first report deleted, then two more filed.
C20_Witness ==
    /\ issued = 2
    /\ Len(reports) = 1
    /\ reports[1].id = 2

\* A form one of the checks named by C21 turns down.
TurnedDown(f) ==
    \/ ~f.confirmSafe
    \/ ~f.confirmNoConfront
    \/ trim(f.description) = <<>>
    \/ f.shareContact /\ f.wantsCallback /\ trim(f.phone) = <<>> /\ trim(f.email) = <<>>

\* C21: submitReport on a form with a safety confirmation unchecked, a
\* description empty after trimming, or a callback asked for with contact
\* sharing on and neither phone nor email, only sets an error banner: no
\* report is created and the list is unchanged.
C21_RejectedFormOnlySetsBanner ==
    [][\A f \in AnyForms, b \in Bearings, u \in Draws :
         (submitReport(f, b, u) /\ TurnedDown(f))
         => /\ reports' = reports
            /\ banner'.type = "error"
            /\ UNCHANGED <<pending, issued, now, tab, locked, privateView, settings, notes>>]_vars

\* The callback error shown with a report already in the list.
C21_Witness ==
    /\ banner = ErrCallback
    /\ tab = "report"
    /\ Len(reports) = 1

C22_LockedHidesPrivateTabs == locked => tab \notin {"my", "settings"}

\* C29: whenever the app is locked, some PIN typed on the lock screen makes
\* tryUnlock succeed (a PIN is set).
C29_LockRecoverable ==
    locked => settings.appPinHash # NoPin /\ \E pin \in Pins : unlocks(settings, pin)

\* The sum of the values of a function with a finite domain.
SumOf(f) ==
    LET sum[D \in SUBSET DOMAIN f] ==
            IF D = {} THEN 0
            ELSE LET k == CHOOSE k \in D : TRUE IN f[k] + sum[D \ {k}]
    IN  sum[DOMAIN f]

\* C28: every stored report is counted in exactly one cell: the raw counts of
\* the populated cells add up to the number of stored reports, and every
\* populated cell has a raw count of at least 1.
C28_BinningPartitions ==
    LET counts == rawCounts(reports)
    IN  /\ SumOf(counts) = Len(reports)
        /\ \A k \in DOMAIN counts : counts[k] >= 1
        /\ \A i \in 1..Len(reports) :
             Cardinality({k \in DOMAIN counts : k = cellKeyOf(reports[i].publicOffset)}) = 1

\* Two reports counted in one cell.
C28_Witness ==
    /\ Len(reports) = 2
    /\ \E k \in DOMAIN rawCounts(reports) : rawCounts(reports)[k] = 2

\* C27: the acknowledgment and Advance Status of report id keep the length of
\* the list and every report but id, at its place; Delete of report id removes
\* id and keeps every other report, in the same order.
C27_ActsOnOneReport ==
    [][\A id \in 1..MaxFiled :
         /\ (AckReceived(id) \/ AdvanceStatus(id))
            => /\ Len(reports') = Len(reports)
               /\ \A i \in 1..Len(reports) :
                    /\ reports'[i].id = reports[i].id
                    /\ reports[i].id # id => reports'[i] = reports[i]
         /\ DeleteReport(id)
            => LET at == CHOOSE i \in 1..Len(reports) : reports[i].id = id
               IN  /\ Len(reports') = Len(reports) - 1
                   /\ \A i \in 1..Len(reports') :
                        reports'[i] = IF i < at THEN reports[i] ELSE reports[i + 1]]_vars

\* Two reports filed, both acknowledgments pending at once: the newer report
\* is acknowledged while the older one still waits.
C27_Witness ==
    /\ Len(reports) = 2
    /\ pending = {reports[2].id}
    /\ reports[1].status = "Received"
    /\ reports[2].status = "Submitted"

\* C23: right after quickWipe the report list is empty, the notes are empty,
\* the settings are defaultSettings, the app is unlocked and the tab is the
\* Notes cover.
C23_QuickWipeClears ==
    [][quickWipe
       => /\ reports' = <<>>
          /\ notes' = ""
          /\ settings' = defaultSettings
          /\ ~locked'
          /\ tab' = "cover"]_vars

\* Wiped with a report filed whose acknowledgment has not run.
C23_Witness ==
    /\ banner = InfoCleared
    /\ tab = "cover"
    /\ issued = 1
    /\ pending = {1}
    /\ reports = <<>>
    /\ notes = ""
    /\ settings = defaultSettings
    /\ ~locked

\* C24: at app start with autoExpiryDays = N > 0 the reports older than N days
\* are removed and the others are kept, unchanged and in their order; with
\* autoExpiryDays = 0 the list is kept as it is.
C24_AutoExpiryAtStart ==
    [][Reload
       => LET N == settings.autoExpiryDays
              Old(r) == now - r.createdAt > N
          IN  /\ N = 0 => reports' = reports
              /\ N > 0
                 => /\ \A i \in 1..Len(reports) :
                         IF Old(reports[i]) THEN reports[i].id \notin Ids(reports')
                         ELSE \E j \in 1..Len(reports') : reports'[j] = reports[i]
                    /\ \A j \in 1..Len(reports') : \E i \in 1..Len(reports) :
                         /\ reports'[j] = reports[i]
                         /\ \A k \in (j + 1)..Len(reports') : \E l \in (i + 1)..Len(reports) :
                              reports'[k] = reports[l]]_vars

\* Only a restart removes a report here: the report of day 0 was removed at a
\* start on day 2 that kept the report of day 1.
C24_Witness ==
    /\ settings.autoExpiryDays = 1
    /\ now = 2
    /\ issued = 2
    /\ Len(reports) = 1
    /\ reports[1].id = 2
    /\ reports[1].createdAt = 1

\* C26: the acknowledgment of a report that is no longer in the list (deleted
\* or wiped before the timer ran) leaves the list unchanged, without that id.
C26_RemovedReportStaysRemoved ==
    [][\A id \in 1..MaxReports :
         (AckReceived(id) /\ id \notin Ids(reports))
         => reports' = reports /\ id \notin Ids(reports')]_vars

\* After a Quick Wipe an acknowledgment is still to run for a report wiped.
C26_Witness ==
    /\ banner = InfoCleared
    /\ \E id \in pending : id \notin Ids(reports)

====
